---- MODULE Spec2Model ----
(***************************************************************************)
(* http2check: a model of main() in src/main.go.                           *)
(*                                                                         *)
(* A Go string is modelled as a sequence of one-character strings, so that *)
(* strings.HasPrefix, HasSuffix, Contains, Replace and TrimSpace are       *)
(* computed character by character, as the library computes them.          *)
(***************************************************************************)
EXTENDS Integers, Sequences, FiniteSets, TLC

----------------------------------------------------------------------------
(* Bounds of the explored inputs. *)

\* how many scheme prefixes ("http://", "https://") an argument may stack
MaxSchemes == 2

\* how many "%lo" zone suffixes an argument may carry
MaxZones == 2

----------------------------------------------------------------------------
(* The strings package, as far as main uses it. *)

HasPrefix(s, prefix) ==
    /\ Len(s) >= Len(prefix)
    /\ SubSeq(s, 1, Len(prefix)) = prefix

HasSuffix(s, suffix) ==
    /\ Len(s) >= Len(suffix)
    /\ SubSeq(s, Len(s) - Len(suffix) + 1, Len(s)) = suffix

\* strings.Index, 1-based; 0 when substr does not occur in s
Index(s, substr) ==
    LET at == {i \in 1..(Len(s) - Len(substr) + 1) :
                  SubSeq(s, i, i + Len(substr) - 1) = substr}
    IN  IF at = {} THEN 0 ELSE CHOOSE i \in at : \A j \in at : i <= j

Contains(s, substr) == Index(s, substr) # 0

\* strings.Replace(s, old, new, n) for a non-empty old: the first n
\* non-overlapping occurrences, scanning from the left; all of them when n < 0
RECURSIVE Replace(_, _, _, _)
Replace(s, old, new, n) ==
    LET i == Index(s, old)
    IN  IF n = 0 \/ i = 0
        THEN s
        ELSE SubSeq(s, 1, i - 1) \o new
             \o Replace(SubSeq(s, i + Len(old), Len(s)), old, new,
                        IF n < 0 THEN n ELSE n - 1)

\* the white space strings.TrimSpace cuts (unicode.IsSpace): the six ASCII
\* characters, U+0085, U+00A0 and the Unicode space separators; a character
\* that has no escape in a TLA+ string is written as its code point
Space ==
    {" ", "\t", "\n", "\r", "\f", "U+000B", "U+0085", "U+00A0", "U+1680", "U+2000", "U+2001",
     "U+2002", "U+2003", "U+2004", "U+2005", "U+2006", "U+2007", "U+2008", "U+2009", "U+200A",
     "U+2028", "U+2029", "U+202F", "U+205F", "U+3000"}

RECURSIVE TrimLeft(_)
TrimLeft(s) ==
    IF s # <<>> /\ Head(s) \in Space THEN TrimLeft(Tail(s)) ELSE s

RECURSIVE TrimRight(_)
TrimRight(s) ==
    IF s # <<>> /\ s[Len(s)] \in Space THEN TrimRight(SubSeq(s, 1, Len(s) - 1)) ELSE s

TrimSpaceIdentity(s) == s

TrimSpace(s) == TrimRight(TrimLeft(s))

----------------------------------------------------------------------------
(* String constants of the program and of its libraries' error texts. *)

version_string == <<"h", "t", "t", "p", "2", "c", "h", "e", "c", "k", " ", "0", ".", "6">>
DefaultURL ==
    <<"h", "t", "t", "p", "s", ":", "/", "/", "h", "t", "t", "p", "2", ".", "g", "o", "l", "a",
      "n", "g", ".", "o", "r", "g">>
HttpPrefix == <<"h", "t", "t", "p", ":", "/", "/">>
HttpsPrefix == <<"h", "t", "t", "p", "s", ":", "/", "/">>
Port80 == <<":", "8", "0">>
Port443 == <<":", "4", "4", "3">>
SchemeSep == <<":", "/", "/">>
DoubleColon == <<":", ":">>
HexEscapeSuffix ==
    <<"h", "e", "x", "a", "d", "e", "c", "i", "m", "a", "l", " ", "e", "s", "c", "a", "p", "e",
      " ", "i", "n", " ", "h", "o", "s", "t">>
TooManyColons == <<"t", "o", "o", " ", "m", "a", "n", "y", " ", "c", "o", "l", "o", "n", "s">>
BadProtocol == <<"b", "a", "d", " ", "p", "r", "o", "t", "o", "c", "o", "l", ":">>
UnsupportedScheme ==
    <<"h", "t", "t", "p", "2", ":", " ", "u", "n", "s", "u", "p", "p", "o", "r", "t", "e", "d",
      " ", "s", "c", "h", "e", "m", "e", " ", "a", "n", "d", " ", "n", "o", " ", "F", "a", "l",
      "l", "b", "a", "c", "k">>
DialTcp == <<"d", "i", "a", "l", " ", "t", "c", "p">>
ConnRefused ==
    <<":", " ", "c", "o", "n", "n", "e", "c", "t", "i", "o", "n", " ", "r", "e", "f", "u", "s",
      "e", "d">>
OversizedRecord ==
    <<"t", "l", "s", ":", " ", "o", "v", "e", "r", "s", "i", "z", "e", "d", " ", "r", "e", "c",
      "o", "r", "d", " ", "r", "e", "c", "e", "i", "v", "e", "d", " ", "w", "i", "t", "h", " ",
      "l", "e", "n", "g", "t", "h", " ">>
UnexpectedALPN ==
    <<"h", "t", "t", "p", "2", ":", " ", "u", "n", "e", "x", "p", "e", "c", "t", "e", "d", " ",
      "A", "L", "P", "N", " ", "p", "r", "o", "t", "o", "c", "o", "l">>
DialTcpLookup == <<"d", "i", "a", "l", " ", "t", "c", "p", ":", " ", "l", "o", "o", "k", "u", "p">>
SubjProtocol == <<"p", "r", "o", "t", "o", "c", "o", "l">>
SubjHTTP2 == <<"H", "T", "T", "P", "/", "2">>
SubjHost == <<"h", "o", "s", "t">>
SubjStatus == <<"s", "t", "a", "t", "u", "s">>
NotHTTP2 == <<"N", "o", "t", " ", "H", "T", "T", "P", "/", "2">>
NotSupported == <<"N", "o", "t", " ", "s", "u", "p", "p", "o", "r", "t", "e", "d">>
Down == <<"D", "o", "w", "n">>
NoHTTPS == <<"N", "o", " ", "H", "T", "T", "P", "S", " ", "s", "u", "p", "p", "o", "r", "t">>
HostNotFound == <<"h", "o", "s", "t", " ", "n", "o", "t", " ", "f", "o", "u", "n", "d">>
GET == <<"G", "E", "T">>
IPv6 == <<"I", "P", "v", "6">>
Ignoring == <<"i", "g", "n", "o", "r", "i", "n", "g", " ", "\"">>
ErrOpenDevNull ==
    <<"C", "o", "u", "l", "d", " ", "n", "o", "t", " ", "o", "p", "e", "n", " ", "/", "d", "e",
      "v", "/", "n", "u", "l", "l", " ", "f", "o", "r", " ", "w", "r", "i", "t", "i", "n", "g">>
version_help ==
    <<"S", "h", "o", "w", " ", "a", "p", "p", "l", "i", "c", "a", "t", "i", "o", "n", " ", "n",
      "a", "m", "e", " ", "a", "n", "d", " ", "v", "e", "r", "s", "i", "o", "n">>
quiet_help ==
    <<"D", "o", "n", "'", "t", " ", "w", "r", "i", "t", "e", " ", "t", "o", " ", "s", "t", "a",
      "n", "d", "a", "r", "d", " ", "o", "u", "t">>
UsageTitle ==
    <<"C", "h", "e", "c", "k", " ", "i", "f", " ", "a", " ", "g", "i", "v", "e", "n", " ", "w",
      "e", "b", "s", "e", "r", "v", "e", "r", " ", "i", "s", " ", "u", "s", "i", "n", "g", " ",
      "H", "T", "T", "P", "/", "2">>
UsageSyntax ==
    <<"S", "y", "n", "t", "a", "x", ":", " ", "h", "t", "t", "p", "2", "c", "h", "e", "c", "k",
      " ", "[", "U", "R", "I", "]">>
UsageFlags == <<"P", "o", "s", "s", "i", "b", "l", "e", " ", "f", "l", "a", "g", "s", ":">>
UsageVersion ==
    <<" ", " ", " ", " ", "-", "-", "v", "e", "r", "s", "i", "o", "n", " ", " ", " ", " ", " ",
      " ", " ", " ", " ", " ", " ", " ", " ", " ", " ", " ", " ", " ">>
UsageQuiet ==
    <<" ", " ", " ", " ", "-", "-", "q", " ", " ", " ", " ", " ", " ", " ", " ", " ", " ", " ",
      " ", " ", " ", " ", " ", " ", " ", " ", " ", " ", " ", " ", " ">>
UsageHelp ==
    <<" ", " ", " ", " ", "-", "-", "h", "e", "l", "p", " ", " ", " ", " ", " ", " ", " ", " ",
      " ", " ", " ", " ", " ", " ", " ", " ", " ", " ", " ", " ", " ", "T", "h", "i", "s", " ",
      "t", "e", "x", "t">>

\* a nil error, request or response; no text is equal to it
Nil == <<"<nil>">>

----------------------------------------------------------------------------
(* fixIPv6 and the first normalization of the argument. *)

\* the two if statements run one after the other: the second one tests the
\* url the first one may have shortened
fixIPv6(url) ==
    LET strip80 == HasPrefix(url, HttpPrefix) /\ ~HasSuffix(url, Port80)
        url1 == IF strip80 THEN SubSeq(url, 8, Len(url)) ELSE url
        port1 == IF strip80 THEN Port80 ELSE <<>>
        strip443 == HasPrefix(url1, HttpsPrefix) /\ ~HasSuffix(url1, Port443)
        url2 == IF strip443 THEN SubSeq(url1, 9, Len(url1)) ELSE url1
        port2 == IF strip443 THEN Port443 ELSE port1
    IN  <<"[">> \o url2 \o <<"]">> \o port2

Digits == {"0", "1", "2", "3", "4", "5", "6", "7", "8", "9"}

DigitVal(c) ==
    CASE c = "0" -> 0 [] c = "1" -> 1 [] c = "2" -> 2 [] c = "3" -> 3 [] c = "4" -> 4
      [] c = "5" -> 5 [] c = "6" -> 6 [] c = "7" -> 7 [] c = "8" -> 8 [] c = "9" -> 9

\* a failed parse: no address
NoIP == <<>>

\* the dotted-quad scan of net.ParseIP (netip.parseIPv4Fields): i is the
\* character read, fields the octets closed, val and digLen the value and the
\* length of the open one; the four octets, or NoIP
RECURSIVE parseIPv4Fields(_, _, _, _, _)
parseIPv4Fields(s, i, fields, val, digLen) ==
    IF i > Len(s) THEN (IF Len(fields) < 3 THEN NoIP ELSE Append(fields, val))
    ELSE IF s[i] \in Digits
    THEN IF (digLen = 1 /\ val = 0) \/ val * 10 + DigitVal(s[i]) > 255
         THEN NoIP
         ELSE parseIPv4Fields(s, i + 1, fields, val * 10 + DigitVal(s[i]), digLen + 1)
    ELSE IF s[i] = "."
    THEN IF i = 1 \/ i = Len(s) \/ s[i - 1] = "." \/ Len(fields) = 3
         THEN NoIP
         ELSE parseIPv4Fields(s, i + 1, Append(fields, val), 0, 0)
    ELSE NoIP

parseIPv4(s) == parseIPv4Fields(s, 1, <<>>, 0, 0)

LowerHex == <<"a", "b", "c", "d", "e", "f">>
UpperHex == <<"A", "B", "C", "D", "E", "F">>

HexDigits == Digits \cup {LowerHex[k] : k \in 1..6} \cup {UpperHex[k] : k \in 1..6}

HexVal(c) ==
    IF c \in Digits THEN DigitVal(c)
    ELSE 9 + (CHOOSE k \in 1..6 : LowerHex[k] = c \/ UpperHex[k] = c)

\* the number of hexadecimal digits s starts with
LeadingHex(s) ==
    LET stops == {i \in 1..Len(s) : s[i] \notin HexDigits}
    IN  IF stops = {} THEN Len(s) ELSE (CHOOSE i \in stops : \A j \in stops : i <= j) - 1

\* the value of a run of hexadecimal digits
RECURSIVE HexValue(_)
HexValue(s) ==
    IF s = <<>> THEN 0 ELSE HexValue(SubSeq(s, 1, Len(s) - 1)) * 16 + HexVal(s[Len(s)])

\* the group loop of netip.parseIPv6, entered at its head: s is the text left,
\* ip the bytes written, ellipsis the position of "::" in ip or -1
RECURSIVE parseIPv6Groups(_, _, _)
parseIPv6Groups(s, ip, ellipsis) ==
    LET Fail == [ok |-> FALSE, ip |-> <<>>, ellipsis |-> -1]
        off == LeadingHex(s)
        acc == HexValue(SubSeq(s, 1, off))
        ip2 == ip \o <<acc \div 256, acc % 256>>
        s2 == SubSeq(s, off + 1, Len(s))
        s3 == Tail(s2)
    IN  IF Len(ip) >= 16
        THEN (IF s = <<>> THEN [ok |-> TRUE, ip |-> ip, ellipsis |-> ellipsis] ELSE Fail)
        ELSE IF off > 4 \/ off = 0 THEN Fail
        ELSE IF off < Len(s) /\ s[off + 1] = "."
        THEN IF (ellipsis < 0 /\ Len(ip) # 12) \/ Len(ip) + 4 > 16 \/ parseIPv4(s) = NoIP
             THEN Fail
             ELSE [ok |-> TRUE, ip |-> ip \o parseIPv4(s), ellipsis |-> ellipsis]
        ELSE IF s2 = <<>> THEN [ok |-> TRUE, ip |-> ip2, ellipsis |-> ellipsis]
        ELSE IF s2[1] # ":" \/ Len(s2) = 1 THEN Fail
        ELSE IF s3[1] # ":" THEN parseIPv6Groups(s3, ip2, ellipsis)
        ELSE IF ellipsis >= 0 THEN Fail
        ELSE IF Len(s3) = 1 THEN [ok |-> TRUE, ip |-> ip2, ellipsis |-> Len(ip2)]
        ELSE parseIPv6Groups(Tail(s3), ip2, Len(ip2))

Zeros(n) == [k \in 1..n |-> 0]

\* netip.parseIPv6 as net.ParseIP uses it: the 16 bytes, or NoIP; an address
\* with a zone is no IP for net.ParseIP
parseIPv6(s) ==
    LET lead == Len(s) >= 2 /\ s[1] = ":" /\ s[2] = ":"
        s1 == IF lead THEN SubSeq(s, 3, Len(s)) ELSE s
        r == parseIPv6Groups(s1, <<>>, IF lead THEN 0 ELSE -1)
        i == Len(r.ip)
    IN  IF Contains(s, <<"%">>) THEN NoIP
        ELSE IF lead /\ s1 = <<>> THEN Zeros(16)
        ELSE IF ~r.ok THEN NoIP
        ELSE IF i < 16
        THEN IF r.ellipsis < 0 THEN NoIP
             ELSE SubSeq(r.ip, 1, r.ellipsis) \o Zeros(16 - i)
                  \o SubSeq(r.ip, r.ellipsis + 1, i)
        ELSE IF r.ellipsis >= 0 THEN NoIP
        ELSE r.ip

\* the 12 bytes in front of an IPv4 address in its 16-byte form
v4InV6Prefix == Zeros(10) \o <<255, 255>>

\* net.ParseIP: the first of '.', ':' and '%' in s decides how s is parsed
ParseIP(s) ==
    LET marks == {i \in 1..Len(s) : s[i] \in {".", ":", "%"}}
        first == CHOOSE i \in marks : \A j \in marks : i <= j
    IN  IF marks = {} THEN NoIP
        ELSE IF s[first] = "."
        THEN (IF parseIPv4(s) = NoIP THEN NoIP ELSE v4InV6Prefix \o parseIPv4(s))
        ELSE IF s[first] = ":" THEN parseIPv6(s)
        ELSE NoIP

\* ip.To4() != nil for a 16-byte ip: an IPv4 address or an IPv4-mapped one
To4(ip) == SubSeq(ip, 1, 12) = v4InV6Prefix

\* net.ParseIP(url).DefaultMask() == nil: url is no IPv4 address (DefaultMask
\* is nil for a nil IP and for every IP that To4 does not convert)
DefaultMaskIsNil(s) ==
    LET ip == ParseIP(s)
    IN  Len(ip) = 0 \/ ~To4(ip)

\* the normalization that always prepends the scheme
NormalizeAlwaysPrefix(raw) ==
    LET fixed == IF DefaultMaskIsNil(raw) /\ Contains(raw, DoubleColon)
                 THEN fixIPv6(raw) ELSE raw
    IN  HttpsPrefix \o fixed

\* the normalization that never prepends the scheme
NormalizeNoPrefix(raw) ==
    IF DefaultMaskIsNil(raw) /\ Contains(raw, DoubleColon) THEN fixIPv6(raw) ELSE raw

\* lines 95-107 of main: the IPv6 fix-up of a "::" argument, then the default scheme
Normalize(raw) ==
    LET fixed == IF DefaultMaskIsNil(raw) /\ Contains(raw, DoubleColon)
                 THEN fixIPv6(raw) ELSE raw
    IN  IF ~Contains(fixed, SchemeSep) THEN HttpsPrefix \o fixed ELSE fixed

----------------------------------------------------------------------------
(* The terminal output o (term.TextOutput). *)

\* the escape sequences of the colour attributes, one element each
ColorOff == "ESC[0m"

\* vt100.LightColorMap: the colour names of the tags and their attributes
LightColorMap ==
    {[key |-> <<"b", "l", "a", "c", "k">>,
      attr |-> "ESC[Black"],
     [key |-> <<"B", "l", "a", "c", "k">>,
      attr |-> "ESC[Black"],
     [key |-> <<"r", "e", "d">>,
      attr |-> "ESC[LightRed"],
     [key |-> <<"R", "e", "d">>,
      attr |-> "ESC[LightRed"],
     [key |-> <<"g", "r", "e", "e", "n">>,
      attr |-> "ESC[LightGreen"],
     [key |-> <<"G", "r", "e", "e", "n">>,
      attr |-> "ESC[LightGreen"],
     [key |-> <<"y", "e", "l", "l", "o", "w">>,
      attr |-> "ESC[LightYellow"],
     [key |-> <<"Y", "e", "l", "l", "o", "w">>,
      attr |-> "ESC[LightYellow"],
     [key |-> <<"b", "l", "u", "e">>,
      attr |-> "ESC[LightBlue"],
     [key |-> <<"B", "l", "u", "e">>,
      attr |-> "ESC[LightBlue"],
     [key |-> <<"m", "a", "g", "e", "n", "t", "a">>,
      attr |-> "ESC[LightMagenta"],
     [key |-> <<"M", "a", "g", "e", "n", "t", "a">>,
      attr |-> "ESC[LightMagenta"],
     [key |-> <<"c", "y", "a", "n">>,
      attr |-> "ESC[LightCyan"],
     [key |-> <<"C", "y", "a", "n">>,
      attr |-> "ESC[LightCyan"],
     [key |-> <<"g", "r", "a", "y">>,
      attr |-> "ESC[LightGray"],
     [key |-> <<"G", "r", "a", "y">>,
      attr |-> "ESC[LightGray"],
     [key |-> <<"w", "h", "i", "t", "e">>,
      attr |-> "ESC[White"],
     [key |-> <<"W", "h", "i", "t", "e">>,
      attr |-> "ESC[White"],
     [key |-> <<"l", "i", "g", "h", "t", "w", "h", "i", "t", "e">>,
      attr |-> "ESC[White"],
     [key |-> <<"L", "i", "g", "h", "t", "W", "h", "i", "t", "e">>,
      attr |-> "ESC[White"],
     [key |-> <<"d", "a", "r", "k", "r", "e", "d">>,
      attr |-> "ESC[Red"],
     [key |-> <<"D", "a", "r", "k", "R", "e", "d">>,
      attr |-> "ESC[Red"],
     [key |-> <<"d", "a", "r", "k", "g", "r", "e", "e", "n">>,
      attr |-> "ESC[Green"],
     [key |-> <<"D", "a", "r", "k", "G", "r", "e", "e", "n">>,
      attr |-> "ESC[Green"],
     [key |-> <<"d", "a", "r", "k", "y", "e", "l", "l", "o", "w">>,
      attr |-> "ESC[Yellow"],
     [key |-> <<"D", "a", "r", "k", "Y", "e", "l", "l", "o", "w">>,
      attr |-> "ESC[Yellow"],
     [key |-> <<"d", "a", "r", "k", "b", "l", "u", "e">>,
      attr |-> "ESC[Blue"],
     [key |-> <<"D", "a", "r", "k", "B", "l", "u", "e">>,
      attr |-> "ESC[Blue"],
     [key |-> <<"d", "a", "r", "k", "m", "a", "g", "e", "n", "t", "a">>,
      attr |-> "ESC[Magenta"],
     [key |-> <<"D", "a", "r", "k", "M", "a", "g", "e", "n", "t", "a">>,
      attr |-> "ESC[Magenta"],
     [key |-> <<"d", "a", "r", "k", "c", "y", "a", "n">>,
      attr |-> "ESC[Cyan"],
     [key |-> <<"D", "a", "r", "k", "C", "y", "a", "n">>,
      attr |-> "ESC[Cyan"],
     [key |-> <<"d", "a", "r", "k", "g", "r", "a", "y">>,
      attr |-> "ESC[DarkGray"],
     [key |-> <<"D", "a", "r", "k", "G", "r", "a", "y">>,
      attr |-> "ESC[DarkGray"],
     [key |-> <<"l", "i", "g", "h", "t", "r", "e", "d">>,
      attr |-> "ESC[LightRed"],
     [key |-> <<"L", "i", "g", "h", "t", "R", "e", "d">>,
      attr |-> "ESC[LightRed"],
     [key |-> <<"l", "i", "g", "h", "t", "g", "r", "e", "e", "n">>,
      attr |-> "ESC[LightGreen"],
     [key |-> <<"L", "i", "g", "h", "t", "G", "r", "e", "e", "n">>,
      attr |-> "ESC[LightGreen"],
     [key |-> <<"l", "i", "g", "h", "t", "y", "e", "l", "l", "o", "w">>,
      attr |-> "ESC[LightYellow"],
     [key |-> <<"L", "i", "g", "h", "t", "Y", "e", "l", "l", "o", "w">>,
      attr |-> "ESC[LightYellow"],
     [key |-> <<"l", "i", "g", "h", "t", "b", "l", "u", "e">>,
      attr |-> "ESC[LightBlue"],
     [key |-> <<"L", "i", "g", "h", "t", "B", "l", "u", "e">>,
      attr |-> "ESC[LightBlue"],
     [key |-> <<"l", "i", "g", "h", "t", "m", "a", "g", "e", "n", "t", "a">>,
      attr |-> "ESC[LightMagenta"],
     [key |-> <<"L", "i", "g", "h", "t", "M", "a", "g", "e", "n", "t", "a">>,
      attr |-> "ESC[LightMagenta"],
     [key |-> <<"l", "i", "g", "h", "t", "c", "y", "a", "n">>,
      attr |-> "ESC[LightCyan"],
     [key |-> <<"L", "i", "g", "h", "t", "C", "y", "a", "n">>,
      attr |-> "ESC[LightCyan"],
     [key |-> <<"l", "i", "g", "h", "t", "g", "r", "a", "y">>,
      attr |-> "ESC[LightGray"],
     [key |-> <<"L", "i", "g", "h", "t", "G", "r", "a", "y">>,
      attr |-> "ESC[LightGray"]}

ColorCodes ==
    {"ESC[DarkGray", "ESC[LightBlue", "ESC[LightCyan", "ESC[LightYellow", "ESC[Red",
     "ESC[White", "ESC[Default", ColorOff} \cup {e.attr : e \in LightColorMap}

\* o.DarkGray(s), o.LightBlue(s), ...: s wrapped in the attribute when o.color
Paint(t, attr, s) == IF t.color THEN <<attr>> \o s \o <<ColorOff>> ELSE s

DarkGray(t, s) == Paint(t, "ESC[DarkGray", s)
LightBlue(t, s) == Paint(t, "ESC[LightBlue", s)
LightCyan(t, s) == Paint(t, "ESC[LightCyan", s)
LightYellow(t, s) == Paint(t, "ESC[LightYellow", s)
DarkRed(t, s) == Paint(t, "ESC[Red", s)
White(t, s) == Paint(t, "ESC[White", s)

\* NewTextOutput(color, enabled): NO_COLOR switches the colours off
NewTextOutput(color, enabled, noColor) ==
    [color |-> color /\ ~noColor, enabled |-> enabled]

OffTag == <<"<", "o", "f", "f", ">">>

\* the tag that s, a text starting with "<", starts with, and what the
\* replacer puts in its place: "<key>" starts the colour of key, "</key>" and
\* "<off>" end it, and every tag is dropped when the colours are off; len is 0
\* when s starts with no tag
TagAt(t, s) ==
    LET close == Index(s, <<">">>)
        inner == SubSeq(s, 2, close - 1)
        closing == inner # <<>> /\ inner[1] = "/"
        name == IF closing THEN Tail(inner) ELSE inner
        hits == {e \in LightColorMap : e.key = name}
        attr == IF closing THEN ColorOff ELSE (CHOOSE e \in hits : TRUE).attr
    IN  IF close = 0 THEN [len |-> 0, new |-> <<>>]
        ELSE IF HasPrefix(s, OffTag)
        THEN [len |-> Len(OffTag), new |-> IF t.color THEN <<ColorOff>> ELSE <<>>]
        ELSE IF hits # {} THEN [len |-> close, new |-> IF t.color THEN <<attr>> ELSE <<>>]
        ELSE [len |-> 0, new |-> <<>>]

\* o.LightTags: the replacer of initializeTagReplacers run over s from the
\* left, from one "<" to the next; no tag is the prefix of another, so at most
\* one matches at a position
RECURSIVE LightTags(_, _)
LightTags(t, s) ==
    LET i == Index(s, <<"<">>)
        rest == SubSeq(s, i, Len(s))
        tag == TagAt(t, rest)
    IN  IF i = 0 THEN s
        ELSE SubSeq(s, 1, i - 1)
             \o (IF tag.len = 0 THEN <<"<">> \o LightTags(t, Tail(rest))
                 ELSE tag.new \o LightTags(t, SubSeq(rest, tag.len + 1, Len(rest))))

\* o.Println(s): the lines it adds to the output
Println(t, s) ==
    IF t.enabled THEN <<[stream |-> "stdout", text |-> LightTags(t, s)]>> ELSE <<>>

\* ac.Error(s) of a vt100 attribute: the attribute, the text and the reset,
\* written to stderr as one line
Error(attr, s) == <<[stream |-> "stderr", text |-> <<attr>> \o s \o <<ColorOff>>]>>

\* o.Err(s): the lines it adds to the output; vt100.Red.Error with colours,
\* vt100.Default.Error without
Err(t, s) ==
    IF t.enabled THEN Error(IF t.color THEN "ESC[Red" ELSE "ESC[Default", s) ELSE <<>>

\* msg without the bracketed subject
msgNoSubject(t, subject, m, extra) ==
    Println(t, m \o (IF Len(extra) = 0 THEN <<>> ELSE <<" ", "(">> \o extra[1] \o <<")">>))

\* msg(o, subject, msg) and msg(o, subject, msg, extra): extra is <<>> or <<text>>
msg(t, subject, m, extra) ==
    Println(t, DarkGray(t, <<"[">>) \o LightBlue(t, subject) \o DarkGray(t, <<"]">>)
               \o <<" ">> \o m
               \o (IF Len(extra) = 0 THEN <<>> ELSE <<" ", "(">> \o extra[1] \o <<")">>))

----------------------------------------------------------------------------
(* The classification of a failed round trip (lines 155-173 of main). *)

\* the chain with the lookup test moved in front of the connection-refused test
ClassifyLookupFirst(errorMessage) ==
    IF errorMessage = BadProtocol THEN "ProtocolMismatch"
    ELSE IF errorMessage = UnsupportedScheme THEN "NoHTTP2Support"
    ELSE IF HasPrefix(errorMessage, DialTcpLookup) THEN "HostUnresolvable"
    ELSE IF HasPrefix(errorMessage, DialTcp) /\ HasSuffix(errorMessage, ConnRefused)
    THEN "HostDown"
    ELSE IF HasPrefix(errorMessage, OversizedRecord) THEN "NoHTTPSSupport"
    ELSE IF HasPrefix(errorMessage, UnexpectedALPN) THEN "ProtocolMismatch"
    ELSE "Unclassified"

\* the if/else chain, in the order main tests it
Classify(errorMessage) ==
    IF errorMessage = BadProtocol THEN "ProtocolMismatch"
    ELSE IF errorMessage = UnsupportedScheme THEN "NoHTTP2Support"
    ELSE IF HasPrefix(errorMessage, DialTcp) /\ HasSuffix(errorMessage, ConnRefused)
    THEN "HostDown"
    ELSE IF HasPrefix(errorMessage, OversizedRecord) THEN "NoHTTPSSupport"
    ELSE IF HasPrefix(errorMessage, UnexpectedALPN) THEN "ProtocolMismatch"
    ELSE IF HasPrefix(errorMessage, DialTcpLookup) THEN "HostUnresolvable"
    ELSE "Unclassified"

\* what each branch of the chain prints
OutcomeLines(t, outcome, errorMessage) ==
    CASE outcome = "ProtocolMismatch" -> msg(t, SubjProtocol, DarkRed(t, NotHTTP2), <<>>)
      [] outcome = "NoHTTP2Support" -> msg(t, SubjHTTP2, DarkRed(t, NotSupported), <<>>)
      [] outcome = "HostDown" -> msg(t, SubjHost, DarkRed(t, Down), <<errorMessage>>)
      [] outcome = "NoHTTPSSupport" ->
            msg(t, SubjProtocol, DarkRed(t, NoHTTPS), <<errorMessage>>)
      [] outcome = "HostUnresolvable" -> msg(t, SubjHost, DarkRed(t, Down), <<HostNotFound>>)
      [] outcome = "Unclassified" -> Err(t, errorMessage)

----------------------------------------------------------------------------
(* Interface-zone stripping (lines 118-126 of main). *)

\* the zone stripping that removes only the first occurrence
StripZoneOnce(u, ifaces) ==
    LET hits == {k \in DOMAIN ifaces : Contains(u, <<"%">> \o ifaces[k])}
    IN  IF hits = {} THEN u
        ELSE LET k == CHOOSE h \in hits : \A j \in hits : h <= j
             IN  Replace(u, <<"%">> \o ifaces[k], <<>>, 1)

\* the index of the first interface whose "%name" occurs in u; 0 when none does
RECURSIVE FirstIface(_, _, _)
FirstIface(u, ifaces, k) ==
    IF k > Len(ifaces) THEN 0
    ELSE IF Contains(u, <<"%">> \o ifaces[k]) THEN k
    ELSE FirstIface(u, ifaces, k + 1)

\* the url after the loop: the loop breaks at the first interface that matches
StripZone(u, ifaces) ==
    LET k == FirstIface(u, ifaces, 1)
    IN  IF k = 0 THEN u ELSE Replace(u, <<"%">> \o ifaces[k], <<>>, -1)

\* the notice the loop prints
ZoneNotice(t, u, ifaces) ==
    LET k == FirstIface(u, ifaces, 1)
    IN  IF k = 0 THEN <<>>
        ELSE Println(t, DarkGray(t, Ignoring \o <<"%">> \o ifaces[k] \o <<"\"">>))

----------------------------------------------------------------------------
(* The inputs of a run: the command line, the environment, and the answers *)
(* of the libraries main calls.                                            *)

Schemes == {HttpPrefix, HttpsPrefix}

RECURSIVE SchemeStacks(_)
SchemeStacks(n) ==
    IF n = 0 THEN {<<>>}
    ELSE SchemeStacks(n - 1) \cup {p \o s : p \in Schemes, s \in SchemeStacks(n - 1)}

HostName == <<"a">>
HostLoopback6 == <<":", ":", "1">>
HostIPv4 == <<"1", ".", "2", ".", "3", ".", "4">>
HostMapped4 == <<":", ":", "f", "f", "f", "f", ":", "1", ".", "2", ".", "3", ".", "4">>
ZoneLo == <<"%", "l", "o">>
IfaceLo == <<"l", "o">>
IfaceL == <<"l">>

HostMapped4Hex == <<":", ":", "f", "f", "f", "f", ":", "1", "0", "2", ":", "3", "0", "4">>
HostMapped4Upper == <<"0", ":", ":", "F", "F", "F", "F", ":", "1", ".", "2", ".", "3", ".", "4">>

Hosts == {HostName, HostLoopback6, HostIPv4, HostMapped4, HostMapped4Hex, HostMapped4Upper}

RECURSIVE ZoneStacks(_)
ZoneStacks(n) ==
    IF n = 0 THEN {<<>>} ELSE ZoneStacks(n - 1) \cup {ZoneLo \o z : z \in ZoneStacks(n - 1)}

Ports == {<<>>, Port80, Port443}

\* the arguments explored: schemes, a host, zones, a port
Arguments ==
    {p \o h \o z \o t : p \in SchemeStacks(MaxSchemes), h \in Hosts,
                        z \in ZoneStacks(MaxZones), t \in Ports}

\* the answers of net.Interfaces(): the local interfaces in enumeration order
InterfaceLists == {<<>>, <<IfaceLo, IfaceL>>, <<IfaceL, IfaceLo>>}

\* the errors of os.OpenFile and of flag.Parse
ErrOpenFile ==
    <<"o", "p", "e", "n", " ", "/", "d", "e", "v", "/", "n", "u", "l", "l", ":", " ", "p", "e",
      "r", "m", "i", "s", "s", "i", "o", "n", " ", "d", "e", "n", "i", "e", "d">>
ErrHelp ==
    <<"f", "l", "a", "g", ":", " ", "h", "e", "l", "p", " ", "r", "e", "q", "u", "e", "s", "t",
      "e", "d">>
ErrFlagUndefined ==
    <<"f", "l", "a", "g", " ", "p", "r", "o", "v", "i", "d", "e", "d", " ", "b", "u", "t", " ",
      "n", "o", "t", " ", "d", "e", "f", "i", "n", "e", "d", ":", " ", "-", "x">>
ErrInterfaces ==
    <<"r", "o", "u", "t", "e", " ", "i", "p", "+", "n", "e", "t", ":", " ", "n", "e", "t", "l",
      "i", "n", "k", "r", "i", "b", ":", " ", "o", "p", "e", "r", "a", "t", "i", "o", "n", " ",
      "n", "o", "t", " ", "p", "e", "r", "m", "i", "t", "t", "e", "d">>
ErrHexEscape ==
    <<"p", "a", "r", "s", "e", ":", " ", "h", "e", "x", "a", "d", "e", "c", "i", "m", "a", "l",
      " ", "e", "s", "c", "a", "p", "e", " ", "i", "n", " ", "h", "o", "s", "t">>
ErrColonSegment ==
    <<"p", "a", "r", "s", "e", ":", " ", "f", "i", "r", "s", "t", " ", "p", "a", "t", "h", " ",
      "s", "e", "g", "m", "e", "n", "t", " ", "i", "n", " ", "U", "R", "L", " ", "c", "a", "n",
      "n", "o", "t", " ", "c", "o", "n", "t", "a", "i", "n", " ", "c", "o", "l", "o", "n">>
ErrTooManyColons ==
    <<"d", "i", "a", "l", " ", "t", "c", "p", ":", " ", "t", "o", "o", " ", "m", "a", "n", "y",
      " ", "c", "o", "l", "o", "n", "s", " ", "i", "n", " ", "a", "d", "d", "r", "e", "s", "s">>
ErrRefused ==
    <<"d", "i", "a", "l", " ", "t", "c", "p", " ", "1", ".", "2", ".", "3", ".", "4", ":", "4",
      "4", "3", ":", " ", "c", "o", "n", "n", "e", "c", "t", "i", "o", "n", " ", "r", "e", "f",
      "u", "s", "e", "d">>
ErrRefusedTag ==
    <<"d", "i", "a", "l", " ", "t", "c", "p", " ", "<", "o", "f", "f", ">", ":", " ", "c", "o",
      "n", "n", "e", "c", "t", "i", "o", "n", " ", "r", "e", "f", "u", "s", "e", "d">>
ErrRefusedBlue ==
    <<"d", "i", "a", "l", " ", "t", "c", "p", " ", "<", "b", "l", "u", "e", ">", "a", "<", "/",
      "b", "l", "u", "e", ">", ":", " ", "c", "o", "n", "n", "e", "c", "t", "i", "o", "n", " ",
      "r", "e", "f", "u", "s", "e", "d">>
ErrLookup ==
    <<"d", "i", "a", "l", " ", "t", "c", "p", ":", " ", "l", "o", "o", "k", "u", "p", " ", "a",
      ":", " ", "n", "o", " ", "s", "u", "c", "h", " ", "h", "o", "s", "t">>
ErrLookupRefused ==
    <<"d", "i", "a", "l", " ", "t", "c", "p", ":", " ", "l", "o", "o", "k", "u", "p", " ", "a",
      ":", " ", "c", "o", "n", "n", "e", "c", "t", "i", "o", "n", " ", "r", "e", "f", "u", "s",
      "e", "d">>
ErrOversized ==
    <<"t", "l", "s", ":", " ", "o", "v", "e", "r", "s", "i", "z", "e", "d", " ", "r", "e", "c",
      "o", "r", "d", " ", "r", "e", "c", "e", "i", "v", "e", "d", " ", "w", "i", "t", "h", " ",
      "l", "e", "n", "g", "t", "h", " ", "2", "0", "5", "2", "7">>
ErrALPN ==
    <<"h", "t", "t", "p", "2", ":", " ", "u", "n", "e", "x", "p", "e", "c", "t", "e", "d", " ",
      "A", "L", "P", "N", " ", "p", "r", "o", "t", "o", "c", "o", "l", " ", "\"", "h", "t",
      "t", "p", "/", "1", ".", "1", "\"", ";", " ", "w", "a", "n", "t", " ", "\"", "h", "2",
      "\"">>
ErrTimeout ==
    <<"n", "e", "t", "/", "h", "t", "t", "p", ":", " ", "T", "L", "S", " ", "h", "a", "n", "d",
      "s", "h", "a", "k", "e", " ", "t", "i", "m", "e", "o", "u", "t">>
ErrBadProtocolMore ==
    <<"b", "a", "d", " ", "p", "r", "o", "t", "o", "c", "o", "l", ":", " ", "h", "2", "c">>
ProtoHTTP2 == <<"H", "T", "T", "P", "/", "2", ".", "0">>
Status200 == <<"2", "0", "0", " ", "O", "K">>

\* the results of flag.Parse(): no error, -h or --help, a flag that is not defined
FlagParseErrs == {ErrHelp, ErrFlagUndefined}

\* the errors of http.NewRequest
NewRequestErrs == {ErrHexEscape, ErrColonSegment}

\* the error texts of a round trip: one or more for every branch of the chain,
\* some of them with white space around them
RoundTripErrs ==
    {BadProtocol, UnsupportedScheme, ErrRefused, ErrRefusedTag, ErrRefusedBlue, ErrLookup,
     ErrLookupRefused, ErrOversized, ErrALPN, ErrTimeout, ErrBadProtocolMore, ErrTooManyColons,
     DialTcp, DialTcp \o ConnRefused, DialTcpLookup, OversizedRecord, UnexpectedALPN,
     <<" ">> \o BadProtocol, <<"\f">> \o BadProtocol, ErrRefused \o <<"\n">>,
     <<" ">> \o ErrTimeout \o <<" ">>, <<"U+000B">> \o UnsupportedScheme \o <<"U+00A0">>,
     ErrTooManyColons \o <<"\n">>}

\* the response of a successful round trip
Response == [nil |-> FALSE, Proto |-> ProtoHTTP2, Status |-> Status200]

NoResponse == [nil |-> TRUE, Proto |-> <<>>, Status |-> <<>>]

----------------------------------------------------------------------------
(* The state of a run of main. *)

VARIABLES
    pc,          \* the place main has reached
    version,     \* the --version flag
    quiet,       \* the -q flag
    args,        \* flag.Args(): the positional arguments, none or one
    flagErr,     \* the error flag.Parse() meets on the command line, or Nil
    EnvNoColor,  \* the NO_COLOR environment variable
    o,           \* the terminal output
    url,         \* the target
    interfaces,  \* the local interfaces, once enumerated
    req,         \* the request: the target it was built for, or Nil
    res,         \* the response
    err,         \* the last error
    built,       \* the calls of http.NewRequest: target and error
    trips,       \* the calls of rt.RoundTrip that returned: target and error
    outcome,     \* the branch of the classification taken, "" before
    out,         \* the lines printed
    exitCode     \* the exit code of the process, -1 while it runs

vars ==
    <<pc, version, quiet, args, flagErr, EnvNoColor, o, url, interfaces, req, res, err, built,
      trips, outcome, out, exitCode>>

Init ==
    /\ pc = "start"
    /\ version \in BOOLEAN
    /\ quiet \in BOOLEAN
    /\ args \in {<<>>} \cup {<<a>> : a \in Arguments}
    /\ flagErr \in FlagParseErrs \cup {Nil}
    /\ EnvNoColor \in BOOLEAN
    /\ o = NewTextOutput(TRUE, TRUE, EnvNoColor)
    /\ url = <<>>
    /\ interfaces = <<>>
    /\ req = Nil
    /\ res = NoResponse
    /\ err = Nil
    /\ built = <<>>
    /\ trips = <<>>
    /\ outcome = ""
    /\ out = <<>>
    /\ exitCode = -1

\* o.ErrExit(text): the error on stderr, then os.Exit(1)
ErrExit(text) ==
    /\ out' = out \o Err(o, text)
    /\ exitCode' = 1
    /\ pc' = "exit"

\* lines 44-52: the log output is sent to /dev/null
OpenDevNull ==
    /\ pc = "start"
    /\ \E e \in {ErrOpenFile, Nil} :
          /\ err' = e
          /\ IF e = Nil
             THEN /\ pc' = "flags"
                  /\ UNCHANGED <<out, exitCode>>
             ELSE ErrExit(ErrOpenDevNull)
    /\ UNCHANGED <<version, quiet, args, flagErr, EnvNoColor, o, url, interfaces, req, res,
                   built, trips, outcome>>

\* flag.Usage (lines 62-74): fmt.Println writes the lines, whatever -q says
Usage ==
    LET line(s) == [stream |-> "stdout", text |-> s]
    IN  <<line(<<>>), line(version_string), line(UsageTitle), line(<<>>), line(UsageSyntax),
          line(<<>>), line(UsageFlags), line(UsageVersion \o version_help),
          line(UsageQuiet \o quiet_help), line(UsageHelp), line(<<>>)>>

\* lines 76-85: the flags. flag.Parse() ends the run on -h (the usage, exit
\* code 0) and on a flag it cannot parse (the error on stderr, the usage,
\* exit code 2); --version prints the version and exits with 0
ParseFlags ==
    /\ pc = "flags"
    /\ IF flagErr # Nil
       THEN /\ out' = out \o (IF flagErr = ErrHelp THEN <<>>
                               ELSE <<[stream |-> "stderr", text |-> flagErr]>>)
                         \o Usage
            /\ exitCode' = IF flagErr = ErrHelp THEN 0 ELSE 2
            /\ pc' = "exit"
            /\ UNCHANGED o
       ELSE /\ o' = NewTextOutput(TRUE, ~quiet, EnvNoColor)
            /\ IF version
               THEN /\ out' = out \o Println(o', version_string)
                    /\ exitCode' = 0
                    /\ pc' = "exit"
               ELSE /\ pc' = "normalize"
                    /\ UNCHANGED <<out, exitCode>>
    /\ UNCHANGED <<version, quiet, args, flagErr, EnvNoColor, url, interfaces, req, res, err,
                   built, trips, outcome>>

\* lines 88-94: the first positional argument, or the default URL
ArgURL == IF Len(args) > 0 THEN args[1] ELSE DefaultURL

\* lines 95-107: the target, normalized
NormalizeTarget ==
    /\ pc = "normalize"
    /\ url' = Normalize(ArgURL)
    /\ pc' = "interfaces"
    /\ UNCHANGED <<version, quiet, args, flagErr, EnvNoColor, o, interfaces, req, res, err, built,
                   trips, outcome, out, exitCode>>

\* lines 114-129: the zone of a local interface is stripped, the target printed
StripZones ==
    /\ pc = "interfaces"
    /\ \/ /\ err' = ErrInterfaces
          /\ ErrExit(ErrInterfaces)
          /\ UNCHANGED <<url, interfaces>>
       \/ \E answer \in InterfaceLists :
             /\ interfaces' = answer
             /\ url' = StripZone(url, answer)
             /\ out' = out \o ZoneNotice(o, url, answer)
                           \o Println(o, DarkGray(o, GET) \o <<" ">> \o LightCyan(o, url'))
             /\ pc' = "newrequest"
             /\ UNCHANGED <<err, exitCode>>
    /\ UNCHANGED <<version, quiet, args, flagErr, EnvNoColor, o, req, res, built, trips, outcome>>

\* lines 132-139: the request is built; an error ending in "hexadecimal escape
\* in host" rewrites the url and goes on with the nil request, any other exits
NewRequest ==
    /\ pc = "newrequest"
    /\ \E e \in NewRequestErrs \cup {Nil} :
          /\ err' = e
          /\ built' = Append(built, [url |-> url, err |-> e])
          /\ IF e = Nil
             THEN /\ req' = url
                  /\ pc' = "roundtrip"
                  /\ UNCHANGED <<url, out, exitCode>>
             ELSE IF HasSuffix(e, HexEscapeSuffix)
             THEN /\ url' = fixIPv6(url)
                  /\ req' = Nil
                  /\ pc' = "roundtrip"
                  /\ UNCHANGED <<out, exitCode>>
             ELSE /\ ErrExit(e)
                  /\ req' = Nil
                  /\ UNCHANGED url
    /\ UNCHANGED <<version, quiet, args, flagErr, EnvNoColor, o, interfaces, res, trips, outcome>>

\* a retry after every failed round trip
IsColonFailureAlways(e) == TRUE

\* line 146: the error text signals the colon ambiguity of an IPv6 address
IsColonFailure(e) == Contains(e, TooManyColons)

\* lines 155-173: the failure is classified, reported, and the process exits with 1
Report(e) ==
    LET errorMessage == TrimSpace(e)
    IN  /\ outcome' = Classify(errorMessage)
        /\ out' = out \o OutcomeLines(o, Classify(errorMessage), errorMessage)
        /\ exitCode' = 1
        /\ pc' = "exit"

\* lines 140-146 and 155-175: the first round trip. A nil request makes the
\* transport dereference a nil pointer: the process panics and exits with 2.
RoundTrip ==
    /\ pc = "roundtrip"
    /\ IF req = Nil
       THEN /\ pc' = "panic"
            /\ exitCode' = 2
            /\ UNCHANGED <<res, err, trips, outcome, out>>
       ELSE \E e \in RoundTripErrs \cup {Nil} :
               /\ err' = e
               /\ trips' = Append(trips, [url |-> req, err |-> e])
               /\ IF e = Nil
                  THEN /\ res' = Response
                       /\ pc' = "final"
                       /\ UNCHANGED <<outcome, out, exitCode>>
                  ELSE IF IsColonFailure(e)
                  THEN /\ pc' = "retry"
                       /\ UNCHANGED <<res, outcome, out, exitCode>>
                  ELSE /\ Report(e)
                       /\ UNCHANGED res
    /\ UNCHANGED <<version, quiet, args, flagErr, EnvNoColor, o, url, interfaces, req, built>>

\* lines 147-152: the url is fixed up and printed, the request built again; an
\* error of the second http.NewRequest exits with 1
Retry ==
    /\ pc = "retry"
    /\ url' = fixIPv6(url)
    /\ \E e \in NewRequestErrs \cup {Nil} :
          /\ err' = e
          /\ built' = Append(built, [url |-> url', err |-> e])
          /\ LET notice == Println(o, LightYellow(o, IPv6) \o <<" ">> \o DarkGray(o, url'))
             IN  IF e = Nil
                 THEN /\ req' = url'
                      /\ out' = out \o notice
                      /\ pc' = "roundtrip2"
                      /\ UNCHANGED exitCode
                 ELSE /\ req' = Nil
                      /\ out' = out \o notice \o Err(o, e)
                      /\ exitCode' = 1
                      /\ pc' = "exit"
    /\ UNCHANGED <<version, quiet, args, flagErr, EnvNoColor, o, interfaces, res, trips, outcome>>

\* lines 153-175: the second round trip; its failure is classified, never retried
RoundTrip2 ==
    /\ pc = "roundtrip2"
    /\ \E e \in RoundTripErrs \cup {Nil} :
          /\ err' = e
          /\ trips' = Append(trips, [url |-> req, err |-> e])
          /\ IF e = Nil
             THEN /\ res' = Response
                  /\ pc' = "final"
                  /\ UNCHANGED <<outcome, out, exitCode>>
             ELSE /\ Report(e)
                  /\ UNCHANGED res
    /\ UNCHANGED <<version, quiet, args, flagErr, EnvNoColor, o, url, interfaces, req, built>>

\* the final output without the protocol line
FinalStatusOnly ==
    /\ pc = "final"
    /\ outcome' = "Success"
    /\ out' = out \o msg(o, SubjStatus, White(o, res.Status), <<>>)
    /\ exitCode' = 0
    /\ pc' = "exit"
    /\ UNCHANGED <<version, quiet, args, flagErr, EnvNoColor, o, url, interfaces, req, res, err,
                   built, trips>>

\* lines 177-180: the protocol and the status of the response; main returns
Final ==
    /\ pc = "final"
    /\ outcome' = "Success"
    /\ out' = out \o msg(o, SubjProtocol, White(o, res.Proto), <<>>)
                  \o msg(o, SubjStatus, White(o, res.Status), <<>>)
    /\ exitCode' = 0
    /\ pc' = "exit"
    /\ UNCHANGED <<version, quiet, args, flagErr, EnvNoColor, o, url, interfaces, req, res, err,
                   built, trips>>

Next ==
    \/ OpenDevNull
    \/ ParseFlags
    \/ NormalizeTarget
    \/ StripZones
    \/ NewRequest
    \/ RoundTrip
    \/ Retry
    \/ RoundTrip2
    \/ Final

Spec == Init /\ [][Next]_vars

----------------------------------------------------------------------------
(* The properties of a run. *)

\* the run is over: os.Exit, the return of main, or a panic
Ended == pc \in {"exit", "panic"}

\* the error of the last round trip issued
LastTripErr == trips[Len(trips)].err

\* the run reached the classification: its last round trip failed and was reported
Classified == pc = "exit" /\ outcome \notin {"", "Success"}

\* a line as the terminal shows it: without the colour attributes
Visible(text) == SelectSeq(text, LAMBDA c : c \notin ColorCodes)

\* s without its leading and trailing white space: from its first to its last
\* character that is no white space
Trimmed(s) ==
    LET solid == {k \in 1..Len(s) : s[k] \notin Space}
    IN  IF solid = {} THEN <<>>
        ELSE SubSeq(s, CHOOSE k \in solid : \A j \in solid : k <= j,
                       CHOOSE k \in solid : \A j \in solid : k >= j)

\* C1: a second round trip is issued only after a first one that failed with
\* "too many colons"; such a failure is followed by exactly one retry (the url
\* fixed up and the request built once more, and the second round trip issued
\* unless that request could not be built); a failure of the second round trip
\* is classified and ends the run; no run issues more than two round trips.
C1_RetryOnlyOnColonFailure ==
    /\ Len(trips) <= 2
    /\ Len(built) <= 2
    /\ Len(trips) = 2 => Contains(trips[1].err, TooManyColons)
    /\ Len(built) = 2 => (Len(trips) >= 1 /\ Contains(trips[1].err, TooManyColons))
    /\ (pc = "exit" /\ trips # <<>> /\ Contains(trips[1].err, TooManyColons))
          => /\ Len(built) = 2
             /\ (Len(trips) = 2) = (built[2].err = Nil)
    /\ (pc = "exit" /\ Len(trips) = 2 /\ trips[2].err # Nil)
          => /\ outcome \notin {"", "Success"}
             /\ exitCode = 1

\* a run whose second round trip failed with "too many colons" again and was
\* classified, not retried
C1_Witness ==
    /\ pc = "exit"
    /\ Len(trips) = 2
    /\ Contains(trips[2].err, TooManyColons)
    /\ outcome = "Unclassified"

\* the table of the specification, evaluated top to bottom, first rule wins
TableOutcome(text) ==
    IF text = BadProtocol THEN "ProtocolMismatch"
    ELSE IF text = UnsupportedScheme THEN "NoHTTP2Support"
    ELSE IF HasPrefix(text, UnexpectedALPN) THEN "ProtocolMismatch"
    ELSE IF HasPrefix(text, DialTcp) /\ HasSuffix(text, ConnRefused) THEN "HostDown"
    ELSE IF HasPrefix(text, DialTcpLookup) THEN "HostUnresolvable"
    ELSE IF HasPrefix(text, OversizedRecord) THEN "NoHTTPSSupport"
    ELSE "Unclassified"

\* C2: the outcome the if/else chain of main chooses for the (trimmed) error
\* text of the failed round trip is the outcome of the specification's table,
\* although the chain tests the rules in another order.
C2_ChainEqualsTable ==
    Classified => outcome = TableOutcome(TrimSpace(LastTripErr))

\* a text that two rules of the table match: a refused lookup is HostDown
C2_Witness ==
    /\ Classified
    /\ LastTripErr = ErrLookupRefused
    /\ outcome = "HostDown"

\* the run stopped because /dev/null could not be opened, before the flags were read
DevNullFailed == pc = "exit" /\ err = ErrOpenFile

\* the run stopped in flag.Parse(), before the version flag was looked at
FlagParseFailed == pc = "exit" /\ err = Nil /\ flagErr # Nil

\* C3: a run that ends, past the opening of /dev/null and the parsing of the
\* flags, exits with 0 when the probe succeeded or the version flag was given,
\* and with 1 otherwise: on every probe failure and on every error of request
\* construction.
C3_ExitCodes ==
    (Ended /\ ~DevNullFailed /\ ~FlagParseFailed)
        => exitCode = IF version \/ outcome = "Success" THEN 0 ELSE 1

\* C4: an error of http.NewRequest stops the run at once, unclassified, with
\* no round trip issued after it; no round trip is issued with a request that
\* was not built, and no run panics.
C4_ConstructionErrorIsFatal ==
    /\ pc # "panic"
    /\ pc \in {"roundtrip", "roundtrip2"} => req # Nil
    /\ \A i \in DOMAIN built :
          built[i].err # Nil
              => /\ pc = "exit"
                 /\ exitCode = 1
                 /\ outcome = ""
                 /\ i = Len(built)
                 /\ Len(trips) = i - 1

\* C5, as claimed: every target handed to request construction and to a round
\* trip, on the first attempt and on the retry, carries a "scheme://".
C5_EveryTargetHasScheme ==
    /\ \A i \in DOMAIN built : Contains(built[i].url, SchemeSep)
    /\ \A i \in DOMAIN trips : Contains(trips[i].url, SchemeSep)

\* C5, amended: the target of the first request construction and of the first
\* round trip contains "://"; the target of the retry is the bracketed result
\* of fixIPv6, which begins with "[" and not with a scheme, and it is the
\* target of the second round trip.
C5_FirstTargetHasScheme ==
    /\ built # <<>> => Contains(built[1].url, SchemeSep)
    /\ trips # <<>> => Contains(trips[1].url, SchemeSep)
    /\ Len(built) = 2
          => /\ built[2].url[1] = "["
             /\ ~HasPrefix(built[2].url, HttpPrefix)
             /\ ~HasPrefix(built[2].url, HttpsPrefix)
    /\ Len(trips) = 2 => trips[2].url = built[2].url

\* a second round trip whose target contains no "://" at all
C5_Witness ==
    /\ Len(trips) = 2
    /\ Contains(trips[1].url, SchemeSep)
    /\ ~Contains(trips[2].url, SchemeSep)

\* C6, as claimed: an argument without "://" is normalized to "https://"
\* followed by the argument, and normalizing that again changes nothing.
C6_PrependsAndIdempotent ==
    (pc = "interfaces" /\ ~Contains(ArgURL, SchemeSep))
        => /\ url = HttpsPrefix \o ArgURL
           /\ Normalize(url) = url

\* C6, amended: for an argument that contains neither "://" nor "::", the
\* normalization yields "https://" followed by the argument and is idempotent.
C6_PrependsAndIdempotentNoIPv6 ==
    (pc = "interfaces" /\ ~Contains(ArgURL, SchemeSep) /\ ~Contains(ArgURL, DoubleColon))
        => /\ url = HttpsPrefix \o ArgURL
           /\ Normalize(url) = url

\* a normalized argument that had no scheme, no "::", and carries a zone and a port
C6_Witness ==
    /\ pc = "interfaces"
    /\ ArgURL = HostName \o ZoneLo \o Port443
    /\ url = HttpsPrefix \o HostName \o ZoneLo \o Port443

\* what the claim says of fixIPv6: r is the result for the input u
FixAsClaimed(u, r) ==
    /\ (HasPrefix(u, HttpsPrefix) /\ ~HasSuffix(u, Port443))
          => r = <<"[">> \o SubSeq(u, 9, Len(u)) \o <<"]">> \o Port443
    /\ (HasPrefix(u, HttpPrefix) /\ ~HasSuffix(u, Port80))
          => r = <<"[">> \o SubSeq(u, 8, Len(u)) \o <<"]">> \o Port80
    /\ ((HasPrefix(u, HttpsPrefix) /\ HasSuffix(u, Port443))
        \/ (HasPrefix(u, HttpPrefix) /\ HasSuffix(u, Port80)))
          => r = <<"[">> \o u \o <<"]">>

\* C7: wherever main applies fixIPv6 (to a "::" argument that is no IPv4
\* address, and to the target of the retry), "https://<address>" without
\* ":443" becomes "[<address>]:443", "http://<address>" without ":80" becomes
\* "[<address>]:80", and an input ending in the default port of its scheme is
\* bracketed whole.
C7_FixIPv6AsClaimed ==
    /\ (pc = "interfaces" /\ DefaultMaskIsNil(ArgURL) /\ Contains(ArgURL, DoubleColon))
          => FixAsClaimed(ArgURL,
                          IF url[1] = "[" THEN url ELSE SubSeq(url, 9, Len(url)))
    /\ Len(built) = 2 => FixAsClaimed(built[1].url, built[2].url)

\* the "%name" of the first interface, in enumeration order, that occurs in u;
\* <<>> when none does
FirstZone(u, ifaces) ==
    LET hits == {k \in DOMAIN ifaces : Contains(u, <<"%">> \o ifaces[k])}
    IN  IF hits = {} THEN <<>>
        ELSE <<"%">> \o ifaces[CHOOSE k \in hits : \A j \in hits : k <= j]

\* u with one occurrence of zone removed, for every place zone occurs at
OneRemoved(u, zone) ==
    {SubSeq(u, 1, i - 1) \o SubSeq(u, i + Len(zone), Len(u)) :
        i \in {k \in 1..(Len(u) - Len(zone) + 1) : SubSeq(u, k, k + Len(zone) - 1) = zone}}

\* C8, as claimed: the stripping removes at most one "%name" substring, that
\* of the first local interface that matches, and changes nothing when none matches.
C8_AtMostOneZoneRemoved ==
    pc = "newrequest"
        => LET zone == FirstZone(Normalize(ArgURL), interfaces)
           IN  IF zone = <<>>
               THEN url = Normalize(ArgURL)
               ELSE url \in OneRemoved(Normalize(ArgURL), zone)

\* C8, amended: the stripping removes every occurrence of the "%name" of one
\* interface, the first in enumeration order that matches (scanning from the
\* left, without overlap), and changes nothing when none matches.
C8_EveryZoneOfFirstMatchRemoved ==
    pc = "newrequest"
        => LET zone == FirstZone(Normalize(ArgURL), interfaces)
           IN  IF zone = <<>>
               THEN url = Normalize(ArgURL)
               ELSE url = Replace(Normalize(ArgURL), zone, <<>>, -1)

\* two zones of the first interface stripped at once, with "l" enumerated after "lo"
C8_Witness ==
    /\ pc = "newrequest"
    /\ interfaces = <<IfaceLo, IfaceL>>
    /\ ArgURL = HostName \o ZoneLo \o ZoneLo
    /\ url = HttpsPrefix \o HostName

\* the outcomes whose line carries the error text
DetailOutcomes == {"HostDown", "NoHTTPSSupport", "Unclassified"}

\* the line of a detail-bearing outcome, with detail d
DetailLine(oc, d) ==
    CASE oc = "HostDown" ->
            <<"[">> \o SubjHost \o <<"]", " ">> \o Down \o <<" ", "(">> \o d \o <<")">>
      [] oc = "NoHTTPSSupport" ->
            <<"[">> \o SubjProtocol \o <<"]", " ">> \o NoHTTPS \o <<" ", "(">> \o d \o <<")">>
      [] oc = "Unclassified" -> d

\* C9, as claimed: the detail of a detail-bearing outcome is the transport
\* error text, character for character.
C9_DetailVerbatim ==
    (Classified /\ outcome \in DetailOutcomes /\ o.enabled)
        => Visible(out[Len(out)].text) = DetailLine(outcome, LastTripErr)

\* C9, amended: the detail is the error text without its leading and trailing
\* white space; in the HostDown and NoHTTPSSupport lines, which o.Println
\* prints, this holds for a text that contains no "<" (no colour tag).
C9_DetailTrimmed ==
    (Classified /\ outcome \in DetailOutcomes /\ o.enabled
       /\ (outcome = "Unclassified" \/ ~Contains(LastTripErr, <<"<">>)))
        => Visible(out[Len(out)].text) = DetailLine(outcome, Trimmed(LastTripErr))

\* an unclassified text with white space on both sides, shown without it
C9_Witness ==
    /\ Classified
    /\ o.enabled
    /\ outcome = "Unclassified"
    /\ LastTripErr = <<" ">> \o ErrTimeout \o <<" ">>
    /\ Visible(out[Len(out)].text) = ErrTimeout

\* the categories of an outcome line
Categories == {SubjProtocol, SubjHTTP2, SubjHost}

\* "[<category>] <label>", with or without a " (<detail>)" after it
HasOutcomeForm(text) ==
    \E c \in Categories :
        /\ HasPrefix(text, <<"[">> \o c \o <<"]", " ">>)
        /\ Len(text) > Len(c) + 3

\* the progress lines main prints before the outcome
IsDiagnostic(text) ==
    \/ HasPrefix(text, GET \o <<" ">>)
    \/ HasPrefix(text, IPv6 \o <<" ">>)
    \/ HasPrefix(text, Ignoring)

\* the lines of the output that are no progress lines
OutcomeLineIndexes == {i \in DOMAIN out : ~IsDiagnostic(Visible(out[i].text))}

\* C10, as claimed: a run whose probe fails emits exactly one outcome line,
\* of the form "[<category>] <label>" or "[<category>] <label> (<detail>)".
C10_OneOutcomeLine ==
    Classified
        => /\ Cardinality(OutcomeLineIndexes) = 1
           /\ \A i \in OutcomeLineIndexes : HasOutcomeForm(Visible(out[i].text))

\* C10, amended: a run that reaches the classification emits nothing under -q
\* and otherwise exactly one outcome line, the last line of its output: for a
\* classified outcome a line on stdout of the form "[<category>] <label>" or
\* "[<category>] <label> (<detail>)", for the Unclassified outcome the trimmed
\* error text alone on stderr.
C10_OneOutcomeLineUnlessQuiet ==
    Classified
        => IF quiet
           THEN out = <<>>
           ELSE /\ OutcomeLineIndexes = {Len(out)}
                /\ IF outcome = "Unclassified"
                   THEN /\ out[Len(out)].stream = "stderr"
                        /\ Visible(out[Len(out)].text) = Trimmed(LastTripErr)
                   ELSE /\ out[Len(out)].stream = "stdout"
                        /\ HasOutcomeForm(Visible(out[Len(out)].text))

\* a host that does not resolve: one "[host] Down (host not found)" line
C10_Witness ==
    /\ Classified
    /\ ~quiet
    /\ outcome = "HostUnresolvable"
    /\ Visible(out[Len(out)].text)
          = <<"[">> \o SubjHost \o <<"]", " ">> \o Down \o <<" ", "(">> \o HostNotFound \o <<")">>

\* the two lines of a successful probe, as the terminal shows them
ProtocolLine == <<"[">> \o SubjProtocol \o <<"]", " ">> \o ProtoHTTP2

StatusLine == <<"[">> \o SubjStatus \o <<"]", " ">> \o Status200

\* the places of the output that hold a success line
SuccessLineIndexes ==
    {i \in DOMAIN out : Visible(out[i].text) \in {ProtocolLine, StatusLine}}

\* the output ends with the protocol line and the status line, and holds no
\* other success line
SuccessLinesEmitted ==
    /\ Len(out) >= 2
    /\ Visible(out[Len(out) - 1].text) = ProtocolLine
    /\ Visible(out[Len(out)].text) = StatusLine
    /\ SuccessLineIndexes = {Len(out) - 1, Len(out)}

\* what C11 says of a run that ended after a round trip, given when the
\* success lines are due
SuccessLinesExactlyWhen(due) ==
    (Ended /\ trips # <<>>)
        => /\ SuccessLinesEmitted = due
           /\ (Len(trips) = 2 /\ LastTripErr = Nil)
                 => /\ exitCode = 0
                    /\ outcome = "Success"
                    /\ OutcomeLineIndexes \subseteq SuccessLineIndexes
           /\ LastTripErr # Nil
                 => /\ SuccessLineIndexes = {}
                    /\ res.nil
                    /\ exitCode # 0

\* C11, as claimed: the two success lines are emitted if and only if the last
\* round trip issued returned no error; a successful retry emits them, exits
\* with 0 and emits no failure line; a run whose last round trip failed emits
\* no success line and has no response to read.
C11_SuccessLinesIffLastTripOk ==
    SuccessLinesExactlyWhen(LastTripErr = Nil)

\* C11, amended: the same, with the success lines emitted if and only if the
\* last round trip issued returned no error and the output is not disabled by -q.
C11_SuccessLinesIffLastTripOkAndLoud ==
    SuccessLinesExactlyWhen(LastTripErr = Nil /\ ~quiet)

\* a first round trip that failed with "too many colons", a retry that
\* succeeded: the two success lines, exit code 0
C11_Witness ==
    /\ pc = "exit"
    /\ Len(trips) = 2
    /\ Contains(trips[1].err, TooManyColons)
    /\ trips[2].err = Nil
    /\ ~quiet
    /\ SuccessLinesEmitted
    /\ exitCode = 0

====
